---- MODULE Spec2Model ----
(***************************************************************************)
(* Model of DynamoDBInterface/DynamoDB.py: the in-memory result pipeline   *)
(* (Filter, DatabaseQueryResult, FilteredResponse) and Table.scan.         *)
(*                                                                         *)
(* Python objects live on heaps, so that aliasing and copy.deepcopy are    *)
(* what the code makes them:                                               *)
(*   rowHeap    address -> row (a dict, kept as the sequence of its        *)
(*              key/value pairs in insertion order)                        *)
(*   stackHeap  address -> a Python list of Filter objects                 *)
(*   objs       object id -> DatabaseQueryResult / FilteredResponse        *)
(* A Python list of rows is a sequence of row addresses.  No code path     *)
(* mutates such a list in place after the object that holds it is built,   *)
(* and none puts one row object twice in a list, so list identity is not   *)
(* kept and deepcopy copies element by element.                            *)
(***************************************************************************)
EXTENDS Integers, Sequences, FiniteSets, TLC

\* ---------------------------------------------------------------- bounds
\* rows in one payload of the external store
MaxRows == 2
\* DatabaseQueryResult / FilteredResponse objects alive in one run
MaxObjs == 3
\* objects of one run of filter chains: a payload and three filtered results
MaxChain == 4
\* payloads fetched from the store in one run (two where a join needs a right side)
MaxRoots == 1
MaxJoinRoots == 2
\* string-keyed assignments in one run
MaxSets == 1
\* iterations (for loops) started in one run
MaxIters == 2
\* pages of one scan, and rows of one page
MaxPages == 3
MaxPageRows == 2

Fields == {"a", "b"}
FieldOrder == <<"a", "b">>
Values == {1, 2}
\* Python's None as a field value (fill_empty's default, unique's sentinel)
None == 0
\* self._items when the payload has no "Items" entry (Python None)
NoneItems == <<0>>

VARIABLES
    rowHeap, stackHeap, objs,   \* the heaps
    lastCall,                   \* the last call made and how it ended
    hist,                       \* per object, the payload and filters of its chain (ghost)
    nroots, nsets,              \* calls made so far, against the bounds
    iters,                      \* the for loops started: object, items yielded, finished
    pages,                      \* the store: the table's rows, page by page
    scan_pc, temp, scan_result, \* Table.scan: its position and locals
    requests                    \* the scan requests made: start key sent, token received

heapVars == <<rowHeap, stackHeap, objs, lastCall, hist, nroots, nsets, iters>>
scanVars == <<pages, scan_pc, temp, scan_result, requests>>
vars == <<rowHeap, stackHeap, objs, lastCall, hist, nroots, nsets, iters,
          pages, scan_pc, temp, scan_result, requests>>

\* ------------------------------------------------------------ Python dict
Has(row, key) == \E i \in 1..Len(row) : row[i].k = key

Lookup(row, key) == row[CHOOSE i \in 1..Len(row) : row[i].k = key].v

Keys(row) == [i \in 1..Len(row) |-> row[i].k]

DictSet(row, key, value) ==
    IF Has(row, key)
    THEN [i \in 1..Len(row) |-> IF row[i].k = key THEN [k |-> key, v |-> value] ELSE row[i]]
    ELSE Append(row, [k |-> key, v |-> value])

DictDel(row, key) == SelectSeq(row, LAMBDA e : e.k # key)

RECURSIVE DictUpdate(_, _)
DictUpdate(row, other) ==
    IF other = <<>> THEN row
    ELSE DictUpdate(DictSet(row, Head(other).k, Head(other).v), Tail(other))

\* the rows an external store can return: any subset of the fields, any values
DictOf(S, f) ==
    LET ks == SelectSeq(FieldOrder, LAMBDA k : k \in S)
    IN  [i \in 1..Len(ks) |-> [k |-> ks[i], v |-> f[ks[i]]]]

InputRows == UNION {{DictOf(S, f) : f \in [S -> Values]} : S \in SUBSET Fields}

InputPayloads == UNION {[1..n -> InputRows] : n \in 0..MaxRows}

\* ------------------------------------------------------------------ heap
\* copy.deepcopy of a list of rows: one fresh row per element
deepcopy(rh, list) ==
    [rh   |-> rh \o [i \in 1..Len(list) |-> rh[list[i]]],
     list |-> [i \in 1..Len(list) |-> Len(rh) + i]]

Deref(rh, list) == [i \in 1..Len(list) |-> rh[list[i]]]

\* ---------------------------------------------------------------- Filter
FilterType ==
    {"EQUALS", "EQUALS_NON_CS", "NOT_EQUAL", "CONTAINS", "NOT_CONTAIN", "GREATER_THAN",
     "GREATER_THAN_EQUAL", "LESS_THAN", "LESS_THAN_EQUAL", "IN", "NOT_IN"}

\* The exception a predicate raises on (x, y), "" when it returns.  Field
\* values are numbers or None and literals are numbers: str.lower, the
\* containment tests and an ordering against None all fail.
FilterTypeRaises(t, x, y) ==
    CASE t = "EQUALS_NON_CS" -> "AttributeError"
      [] t \in {"CONTAINS", "NOT_CONTAIN", "IN", "NOT_IN"} -> "TypeError"
      [] t \in {"GREATER_THAN", "GREATER_THAN_EQUAL", "LESS_THAN", "LESS_THAN_EQUAL"} ->
            IF x = None THEN "TypeError" ELSE ""
      [] OTHER -> ""

FilterTypeValue(t, x, y) ==
    CASE t = "EQUALS" -> x = y
      [] t = "NOT_EQUAL" -> x # y
      [] t = "GREATER_THAN" -> x > y
      [] t = "GREATER_THAN_EQUAL" -> x >= y
      [] t = "LESS_THAN" -> x < y
      [] t = "LESS_THAN_EQUAL" -> x <= y
      [] OTHER -> FALSE

\* self.filter_type.value(d[self.col], self.val): "keep", "drop" or the
\* exception raised; d[self.col] on a row without the column is a KeyError
Evaluate(f, row) ==
    IF ~Has(row, f.col) THEN "KeyError"
    ELSE IF FilterTypeRaises(f.filter_type, Lookup(row, f.col), f.val) # ""
         THEN FilterTypeRaises(f.filter_type, Lookup(row, f.col), f.val)
    ELSE IF FilterTypeValue(f.filter_type, Lookup(row, f.col), f.val) THEN "keep"
    ELSE "drop"

\* a slip: `predicate(d[col], val) or col not in d`, the predicate first
Condition_eager(f, row) ==
    IF f.includes_empty
    THEN IF Evaluate(f, row) = "drop" /\ ~Has(row, f.col) THEN "keep" ELSE Evaluate(f, row)
    ELSE IF ~Has(row, f.col) THEN "drop" ELSE Evaluate(f, row)

\* the condition of the list comprehension, for one row d
Condition(f, row) ==
    IF f.includes_empty
    THEN IF ~Has(row, f.col) THEN "keep" ELSE Evaluate(f, row)
    ELSE IF ~Has(row, f.col) THEN "drop" ELSE Evaluate(f, row)

\* Filter.apply(data): the kept rows (the same row objects, in order), or the
\* exception of the first row whose condition raises
Filter_apply(rh, f, data) ==
    LET out(i) == Condition(f, rh[data[i]])
        bad == {i \in 1..Len(data) : out(i) \notin {"keep", "drop"}}
    IN  IF bad # {}
        THEN [exc |-> out(CHOOSE i \in bad : \A j \in bad : i <= j), list |-> <<>>]
        ELSE [exc |-> "", list |-> SelectSeq(data, LAMBDA a : Condition(f, rh[a]) = "keep")]

Filter_str(f) == <<"FILTER", f.col, f.filter_type, f.val>>

\* --------------------------------------------------- DatabaseQueryResult
\* __init__(data, source_table): _data is a deep copy, _items is the
\* caller's own list
DatabaseQueryResult_init(rh, data) ==
    LET c == deepcopy(rh, data.Items)
    IN  [rh  |-> c.rh,
         obj |-> [cls            |-> "DatabaseQueryResult",
                  _data          |-> [keys |-> data.keys, Items |-> c.list],
                  _items         |-> IF "Items" \in data.keys THEN data.Items ELSE NoneItems,
                  i              |-> 0,
                  i_mode         |-> "NONE",
                  _filter_stack  |-> 0,
                  _original_data |-> 0]]

dump(o) == o._data

all(o) == IF o._items # NoneItems THEN o._items ELSE <<>>

length(o) == Len(o._items)

\* ------------------------------------------------------ FilteredResponse
RECURSIVE ApplyStack(_, _, _)
\* for f in self._filter_stack: data["Items"] = f.apply(data["Items"])
ApplyStack(rh, stack, list) ==
    IF stack = <<>> THEN [exc |-> "", list |-> list]
    ELSE LET r == Filter_apply(rh, Head(stack), list)
         IN  IF r.exc # "" THEN r ELSE ApplyStack(rh, Tail(stack), r.list)

\* a slip: the incremental path filters the origin's snapshot, not last_filtered's
FilteredResponse_init_origin(rh, sh, os, original, current_filter, filter_stack, last_filtered) ==
    LET stack == (IF filter_stack = 0 THEN <<>> ELSE sh[filter_stack]) \o <<current_filter>>
        sh2 == Append(sh, stack)
        src == dump(os[original])
        data == deepcopy(rh, src.Items)
        applied == IF "Items" \notin src.keys THEN [exc |-> "", list |-> <<>>]
                   ELSE IF last_filtered # 0 THEN Filter_apply(data.rh, current_filter, data.list)
                   ELSE ApplyStack(data.rh, stack, data.list)
        base == DatabaseQueryResult_init(data.rh, [keys |-> src.keys, Items |-> applied.list])
    IN  [exc |-> applied.exc,
         rh  |-> base.rh,
         sh  |-> sh2,
         obj |-> [base.obj EXCEPT !.cls = "FilteredResponse",
                                  !._filter_stack = Len(sh2),
                                  !._original_data = original]]

\* a slip: filter_stack.append(current_filter) on the caller's list
FilteredResponse_init_append(rh, sh, os, original, current_filter, filter_stack, last_filtered) ==
    LET stack == (IF filter_stack = 0 THEN <<>> ELSE sh[filter_stack]) \o <<current_filter>>
        sh2 == IF filter_stack = 0 THEN Append(sh, stack) ELSE [sh EXCEPT ![filter_stack] = stack]
        src == IF last_filtered # 0 THEN dump(os[last_filtered]) ELSE dump(os[original])
        data == deepcopy(rh, src.Items)
        applied == IF "Items" \notin src.keys THEN [exc |-> "", list |-> <<>>]
                   ELSE IF last_filtered # 0 THEN Filter_apply(data.rh, current_filter, data.list)
                   ELSE ApplyStack(data.rh, stack, data.list)
        base == DatabaseQueryResult_init(data.rh, [keys |-> src.keys, Items |-> applied.list])
    IN  [exc |-> applied.exc,
         rh  |-> base.rh,
         sh  |-> sh2,
         obj |-> [base.obj EXCEPT !.cls = "FilteredResponse",
                                  !._filter_stack = IF filter_stack = 0 THEN Len(sh2) ELSE filter_stack,
                                  !._original_data = original]]

\* __init__(original_query_response, current_filter, filter_stack, last_filtered)
\* original and last_filtered are object ids (0: None); filter_stack is the
\* address of the caller's list (0: None).  Result: the exception or the heaps
\* and the new object.
FilteredResponse_init(rh, sh, os, original, current_filter, filter_stack, last_filtered) ==
    LET stack == (IF filter_stack = 0 THEN <<>> ELSE sh[filter_stack]) \o <<current_filter>>
        sh2 == Append(sh, stack)
        src == IF last_filtered # 0 THEN dump(os[last_filtered]) ELSE dump(os[original])
        data == deepcopy(rh, src.Items)
        applied == IF "Items" \notin src.keys THEN [exc |-> "", list |-> <<>>]
                   ELSE IF last_filtered # 0 THEN Filter_apply(data.rh, current_filter, data.list)
                   ELSE ApplyStack(data.rh, stack, data.list)
        base == DatabaseQueryResult_init(data.rh, [keys |-> src.keys, Items |-> applied.list])
    IN  [exc |-> applied.exc,
         rh  |-> base.rh,
         sh  |-> sh2,
         obj |-> [base.obj EXCEPT !.cls = "FilteredResponse",
                                  !._filter_stack = Len(sh2),
                                  !._original_data = original]]

\* filter_using(f), by the class of the receiver
filter_using(rh, sh, os, o, f) ==
    IF os[o].cls = "FilteredResponse"
    THEN FilteredResponse_init(rh, sh, os, os[o]._original_data, f, os[o]._filter_stack, o)
    ELSE FilteredResponse_init(rh, sh, os, o, f, 0, 0)

filter_stack(sh, o) == [i \in 1..Len(sh[o._filter_stack]) |-> Filter_str(sh[o._filter_stack][i])]


\* ---------------------------------------- DatabaseQueryResult: read access
\* len(self._items) and iteration over self._items raise TypeError on None
ItemsIsNone(o) == o._items = NoneItems

\* first(): the first row object, or a new empty dict
first(rh, o) == IF Len(o._items) > 0 THEN rh[o._items[1]] ELSE <<>>

\* columns(): the union of the rows' keys
columns(rh, o) == UNION {{rh[all(o)[i]][j].k : j \in 1..Len(rh[all(o)[i]])} : i \in 1..Len(all(o))}

\* unique(key, ignores_empty): the comprehension's condition is
\* `key in x and ignores_empty`
unique(rh, o, key, ignores_empty) ==
    {IF Has(rh[o._items[i]], key) THEN Lookup(rh[o._items[i]], key) ELSE None :
        i \in {j \in 1..Len(o._items) : Has(rh[o._items[j]], key) /\ ignores_empty}}

num_unique(rh, o, key, ignores_empty) == Cardinality(unique(rh, o, key, ignores_empty))

count_empty(rh, o, key) == Cardinality({i \in 1..Len(o._items) : ~Has(rh[o._items[i]], key)})

\* a slip: the two cardinality errors the other way round
getitem_swapped(rh, o, item) ==
    IF ItemsIsNone(o) THEN [exc |-> "TypeError", val |-> <<>>]
    ELSE IF length(o) = 1
         THEN IF Has(rh[o._items[1]], item)
              THEN [exc |-> "", val |-> <<Lookup(rh[o._items[1]], item)>>]
              ELSE [exc |-> "KeyError", val |-> <<>>]
    ELSE IF length(o) # 0 THEN [exc |-> "IndexError", val |-> <<>>]
    ELSE [exc |-> "TypeError", val |-> <<>>]

\* __getitem__(item) for a string: the value, or the exception
getitem(rh, o, item) ==
    IF ItemsIsNone(o) THEN [exc |-> "TypeError", val |-> <<>>]
    ELSE IF length(o) = 1
         THEN IF Has(rh[o._items[1]], item)
              THEN [exc |-> "", val |-> <<Lookup(rh[o._items[1]], item)>>]
              ELSE [exc |-> "KeyError", val |-> <<>>]
    ELSE IF length(o) # 0 THEN [exc |-> "TypeError", val |-> <<>>]
    ELSE [exc |-> "IndexError", val |-> <<>>]

\* __setitem__(key, value) for a string key: writes the first row object of _items
setitem(rh, o, key, value) ==
    IF ItemsIsNone(o) THEN [exc |-> "TypeError", rh |-> rh]
    ELSE IF length(o) = 1
         THEN [exc |-> "", rh |-> [rh EXCEPT ![o._items[1]] = DictSet(@, key, value)]]
    ELSE IF length(o) # 0 THEN [exc |-> "TypeError", rh |-> rh]
    ELSE [exc |-> "IndexError", rh |-> rh]

\* ----------------------------------------- DatabaseQueryResult: derivations
\* a derivation ends with an exception, with self, or with a new object
NoObj == DatabaseQueryResult_init(<<>>, [keys |-> {}, Items |-> <<>>]).obj

Raise(e, rh) == [exc |-> e, rh |-> rh, obj |-> NoObj, self |-> FALSE]

ReturnSelf(rh) == [exc |-> "", rh |-> rh, obj |-> NoObj, self |-> TRUE]

\* return DatabaseQueryResult({"Items": items}, self._table)
ReturnNew(rh, items) ==
    LET r == DatabaseQueryResult_init(rh, [keys |-> {"Items"}, Items |-> items])
    IN  [exc |-> "", rh |-> r.rh, obj |-> r.obj, self |-> FALSE]

\* for elem in data: <change elem in place>
MapRows(rh, list, F(_)) ==
    [a \in 1..Len(rh) |-> IF \E i \in 1..Len(list) : list[i] = a THEN F(rh[a]) ELSE rh[a]]

RECURSIVE DelKeys(_, _)
DelKeys(row, keys) ==
    IF keys = <<>> THEN row ELSE DelKeys(DictDel(row, Head(keys)), Tail(keys))

\* strip(keys, key): a.given is false when both are None
strip_nocopy(rh, o, a) ==
    IF ~a.given THEN Raise("KeyError", rh)
    ELSE ReturnNew(MapRows(rh, all(o), LAMBDA row : DelKeys(row, a.keys)), all(o))

strip(rh, o, a) ==
    IF ~a.given THEN Raise("KeyError", rh)
    ELSE LET data == deepcopy(rh, all(o))
         IN  ReturnNew(MapRows(data.rh, data.list, LAMBDA row : DelKeys(row, a.keys)), data.list)

select_columns(rh, o, cols) ==
    LET data == deepcopy(rh, all(o))
        drop == {x \in columns(rh, o) : x \notin cols}
    IN  ReturnNew(MapRows(data.rh, data.list, LAMBDA row : SelectSeq(row, LAMBDA e : e.k \notin drop)),
                  data.list)

\* the functions handed to apply(): succ = lambda x: x + 1, add = lambda x, y: x + y
Function(fn, args_data) ==
    CASE fn = "succ" /\ Len(args_data) = 1 /\ args_data[1] # None ->
            [exc |-> "", val |-> args_data[1] + 1]
      [] fn = "add" /\ Len(args_data) = 2 /\ args_data[1] # None /\ args_data[2] # None ->
            [exc |-> "", val |-> args_data[1] + args_data[2]]
      [] OTHER -> [exc |-> "TypeError", val |-> None]

\* apply(function, *args, new_col): a.new_col = "" is None
apply(rh, o, a) ==
    IF Len(a.args) = 0 THEN Raise("RuntimeError", rh)
    ELSE LET new_col == IF a.new_col = "" THEN a.args[1] ELSE a.new_col
             data == deepcopy(rh, all(o))
             present(row) == SelectSeq(a.args, LAMBDA col : Has(row, col))
             args_data(row) == [j \in 1..Len(present(row)) |-> Lookup(row, present(row)[j])]
             applies(row) == Len(args_data(row)) = Len(a.args)
             res(row) == Function(a.function, args_data(row))
             bad == {i \in 1..Len(data.list) :
                        applies(data.rh[data.list[i]]) /\ res(data.rh[data.list[i]]).exc # ""}
             stop == IF bad = {} THEN Len(data.list) + 1
                     ELSE CHOOSE i \in bad : \A j \in bad : i <= j
             rh2 == MapRows(data.rh, SubSeq(data.list, 1, stop - 1),
                            LAMBDA row : IF applies(row) THEN DictSet(row, new_col, res(row).val)
                                         ELSE row)
         IN  IF bad # {} THEN Raise(res(data.rh[data.list[stop]]).exc, rh2)
             ELSE ReturnNew(rh2, data.list)

\* fill_empty(with_data): `order` is the iteration order of the set self.columns()
fill_empty(rh, o, with_data, order) ==
    LET new_row(row) == [j \in 1..Len(order) |->
                            [k |-> order[j],
                             v |-> IF Has(row, order[j]) THEN Lookup(row, order[j]) ELSE with_data]]
        new_data == [i \in 1..Len(all(o)) |-> new_row(rh[all(o)[i]])]
    IN  ReturnNew(rh \o new_data, [i \in 1..Len(new_data) |-> Len(rh) + i])

\* sort(using): sorted() runs over copy.deepcopy(self._data), a dict, so the
\* sort key is computed on the dict's key names; x[using] on a str raises
sort(rh, o, using) ==
    IF using.type \notin {"str", "list"} THEN Raise("RuntimeError", rh)
    ELSE IF dump(o).keys # {} /\ Len(using.keys) > 0 THEN Raise("TypeError", rh)
    ELSE ReturnNew(rh, <<>>)

\* get_where(key, value): self.filter(key, value, FilterType.EQUALS).first()
get_where(rh, sh, os, o, key, value) ==
    LET f == [col |-> key, val |-> value, filter_type |-> "EQUALS", includes_empty |-> FALSE]
        r == filter_using(rh, sh, os, o, f)
    IN  first(r.rh, r.obj)

\* join(_with, using); the unused filtered results of get_where are not kept
join(rh, sh, os, self, with, using) ==
    IF using \notin columns(rh, os[self]) THEN ReturnSelf(rh)
    ELSE IF ItemsIsNone(os[with]) THEN Raise("TypeError", rh)
    ELSE LET new_items == deepcopy(rh, os[self]._items)
             rh2 == MapRows(new_items.rh, new_items.list,
                            LAMBDA item : IF Has(item, using)
                                          THEN DictUpdate(item, get_where(rh, sh, os, with, using,
                                                                          Lookup(item, using)))
                                          ELSE item)
         IN  ReturnNew(rh2, new_items.list)

\* __iter__(): resets the object's own cursor and returns the object itself
iter(o) ==
    IF ItemsIsNone(o) THEN [exc |-> "TypeError", obj |-> o]
    ELSE [exc |-> "",
          obj |-> [o EXCEPT !.i = -1, !.i_mode = IF length(o) = 1 THEN "DICT" ELSE "LIST"]]

\* __next__(): StopIteration, or the advanced cursor and the item returned
next(rh, o) ==
    IF o.i_mode = "DICT"
    THEN IF o.i >= Len(first(rh, o)) - 1
         THEN [stop |-> TRUE, obj |-> o, item |-> [row |-> <<>>]]
         ELSE [stop |-> FALSE,
               obj  |-> [o EXCEPT !.i = o.i + 1],
               item |-> [key   |-> Keys(rh[o._items[1]])[o.i + 2],
                         value |-> Lookup(rh[o._items[1]], Keys(rh[o._items[1]])[o.i + 2])]]
    ELSE IF o.i >= length(o) - 1
         THEN [stop |-> TRUE, obj |-> o, item |-> [row |-> <<>>]]
         ELSE [stop |-> FALSE,
               obj  |-> [o EXCEPT !.i = o.i + 1],
               item |-> [row |-> rh[o._items[o.i + 2]]]]

\* ---------------------------------------------------------------- calls
NoCall == [op |-> "", self |-> 0, args |-> <<>>, exc |-> "", ret |-> 0, val |-> <<>>]

Call(op, o, args, exc, ret, val) ==
    [op |-> op, self |-> o, args |-> args, exc |-> exc, ret |-> ret, val |-> val]

Objs == 1..Len(objs)

\* the inputs of the calls
FilterInputs ==
    [col : {"a"}, val : {1}, filter_type : {"EQUALS"}, includes_empty : BOOLEAN]
        \cup [col : {"b"}, val : {1}, filter_type : {"GREATER_THAN"}, includes_empty : BOOLEAN]
        \cup [col : {"a"}, val : {1}, filter_type : {"CONTAINS"}, includes_empty : {FALSE}]

\* the filters tried among the other derivations
DeriveFilterInputs ==
    [col : {"a"}, val : {1}, filter_type : {"EQUALS", "LESS_THAN"}, includes_empty : BOOLEAN]

AllFilterInputs ==
    [col : Fields, val : Values, filter_type : FilterType, includes_empty : BOOLEAN]

SetValues == {2}

StripInputs ==
    {[given |-> FALSE, keys |-> <<>>], [given |-> TRUE, keys |-> <<"a">>],
     [given |-> TRUE, keys |-> <<"b">>], [given |-> TRUE, keys |-> <<"a", "b">>]}

ApplyInputs ==
    {[function |-> "succ", args |-> <<>>, new_col |-> ""],
     [function |-> "succ", args |-> <<"a">>, new_col |-> ""],
     [function |-> "succ", args |-> <<"b">>, new_col |-> "a"],
     [function |-> "add", args |-> <<"a", "b">>, new_col |-> ""]}

SortInputs ==
    {[type |-> "str", keys |-> <<"a">>], [type |-> "str", keys |-> <<"b">>],
     [type |-> "list", keys |-> <<"a", "b">>], [type |-> "int", keys |-> <<>>]}

Orders(S) ==
    {s \in [1..Cardinality(S) -> S] : \A i, j \in 1..Cardinality(S) : s[i] = s[j] => i = j}

ScanRows == {DictOf({"a"}, [k \in {"a"} |-> v]) : v \in Values}

PageInputs == UNION {[1..n -> ScanRows] : n \in 0..MaxPageRows}

NoTemp == [none |-> TRUE, Items |-> <<>>, hasKey |-> FALSE, LastEvaluatedKey |-> None]

HeapInit ==
    /\ rowHeap = <<>>
    /\ stackHeap = <<>>
    /\ objs = <<>>
    /\ lastCall = NoCall
    /\ hist = <<>>
    /\ nroots = 0
    /\ nsets = 0
    /\ iters = <<>>

Init ==
    /\ HeapInit
    /\ pages = <<>>
    /\ scan_pc = "idle"
    /\ temp = NoTemp
    /\ scan_result = <<>>
    /\ requests = <<>>

\* Table.get hands the store's payload to DatabaseQueryResult(query, self)
Get(maxRoots) ==
    /\ Len(objs) < MaxObjs
    /\ nroots < maxRoots
    /\ \E p \in InputPayloads, keys \in {{"Items", "Count"}, {"Count"}} :
        /\ ("Items" \notin keys) => p = <<>>
        /\ LET payload == [i \in 1..Len(p) |-> Len(rowHeap) + i]
               r == DatabaseQueryResult_init(rowHeap \o p, [keys |-> keys, Items |-> payload])
           IN  /\ rowHeap' = r.rh
               /\ objs' = Append(objs, r.obj)
               /\ hist' = Append(hist, [origin |-> Len(objs) + 1, filters |-> <<>>])
               /\ lastCall' = Call("get", 0, <<>>, "", Len(objs) + 1, <<>>)
    /\ nroots' = nroots + 1
    /\ UNCHANGED <<stackHeap, nsets, iters, scanVars>>

GetRoot == Get(MaxRoots)

GetJoinRoot == Get(MaxJoinRoots)

\* o.filter(column, value, filter_type, includes_empty)
Filter(inputs, maxObjs) ==
    /\ Len(objs) < maxObjs
    /\ \E o \in Objs, f \in inputs :
        LET r == filter_using(rowHeap, stackHeap, objs, o, f)
        IN  IF r.exc # ""
            THEN /\ lastCall' = Call("filter", o, <<f>>, r.exc, 0, <<>>)
                 /\ UNCHANGED <<rowHeap, stackHeap, objs, hist>>
            ELSE /\ rowHeap' = r.rh
                 /\ stackHeap' = r.sh
                 /\ objs' = Append(objs, r.obj)
                 /\ hist' = Append(hist, [origin |-> hist[o].origin, filters |-> hist[o].filters \o <<f>>])
                 /\ lastCall' = Call("filter", o, <<f>>, "", Len(objs) + 1, <<>>)
    /\ UNCHANGED <<nroots, nsets, iters, scanVars>>

FilterCall == Filter(FilterInputs, MaxChain)

DeriveFilter == Filter(DeriveFilterInputs, MaxObjs)

\* the end of a derivation r of object o: an exception, self, or a new object.
\* Without a new object the rows the call allocated are unreachable and freed;
\* what it wrote to rows that existed before stays.
Derive(op, o, args, r) ==
    /\ IF r.exc # ""
       THEN /\ lastCall' = Call(op, o, args, r.exc, 0, <<>>)
            /\ rowHeap' = SubSeq(r.rh, 1, Len(rowHeap))
            /\ UNCHANGED <<objs, hist>>
       ELSE IF r.self
       THEN /\ lastCall' = Call(op, o, args, "", o, <<>>)
            /\ rowHeap' = SubSeq(r.rh, 1, Len(rowHeap))
            /\ UNCHANGED <<objs, hist>>
       ELSE /\ lastCall' = Call(op, o, args, "", Len(objs) + 1, <<>>)
            /\ rowHeap' = r.rh
            /\ objs' = Append(objs, r.obj)
            /\ hist' = Append(hist, [origin |-> Len(objs) + 1, filters |-> <<>>])
    /\ UNCHANGED <<stackHeap, nroots, nsets, iters, scanVars>>

Strip ==
    /\ Len(objs) < MaxObjs
    /\ \E o \in Objs, a \in StripInputs : Derive("strip", o, <<a>>, strip(rowHeap, objs[o], a))

SelectColumns ==
    /\ Len(objs) < MaxObjs
    /\ \E o \in Objs, cols \in SUBSET Fields :
        Derive("select_columns", o, <<cols>>, select_columns(rowHeap, objs[o], cols))

Apply ==
    /\ Len(objs) < MaxObjs
    /\ \E o \in Objs, a \in ApplyInputs : Derive("apply", o, <<a>>, apply(rowHeap, objs[o], a))

FillEmpty ==
    /\ Len(objs) < MaxObjs
    /\ \E o \in Objs, with_data \in {None, 1} :
        \E order \in Orders(columns(rowHeap, objs[o])) :
            Derive("fill_empty", o, <<with_data>>, fill_empty(rowHeap, objs[o], with_data, order))

Sort ==
    /\ Len(objs) < MaxObjs
    /\ \E o \in Objs, using \in SortInputs : Derive("sort", o, <<using>>, sort(rowHeap, objs[o], using))

Join ==
    /\ Len(objs) < MaxObjs
    /\ \E o \in Objs, with \in Objs, using \in Fields :
        Derive("join", o, <<with, using>>, join(rowHeap, stackHeap, objs, o, with, using))

\* f.apply(o.all()) for a Filter f built by the caller
FilterApply ==
    /\ \E o \in Objs, f \in AllFilterInputs :
        LET r == Filter_apply(rowHeap, f, all(objs[o]))
        IN  lastCall' = Call("Filter.apply", o, <<f>>, r.exc, 0, r.list)
    /\ UNCHANGED <<rowHeap, stackHeap, objs, hist, nroots, nsets, iters, scanVars>>

\* o.unique(key, ignores_empty)
Unique ==
    /\ \E o \in Objs, key \in Fields, ignores_empty \in BOOLEAN :
        lastCall' = IF ItemsIsNone(objs[o])
                    THEN Call("unique", o, <<key, ignores_empty>>, "TypeError", 0, <<>>)
                    ELSE Call("unique", o, <<key, ignores_empty>>, "", 0,
                              <<unique(rowHeap, objs[o], key, ignores_empty)>>)
    /\ UNCHANGED <<rowHeap, stackHeap, objs, hist, nroots, nsets, iters, scanVars>>

\* o[item]
GetItem ==
    /\ \E o \in Objs, item \in Fields :
        LET r == getitem(rowHeap, objs[o], item)
        IN  lastCall' = Call("getitem", o, <<item>>, r.exc, 0, r.val)
    /\ UNCHANGED <<rowHeap, stackHeap, objs, hist, nroots, nsets, iters, scanVars>>

\* o[key] = value
SetItem ==
    /\ nsets < MaxSets
    /\ \E o \in Objs, key \in Fields, value \in SetValues :
        LET r == setitem(rowHeap, objs[o], key, value)
        IN  /\ rowHeap' = r.rh
            /\ lastCall' = Call("setitem", o, <<key, value>>, r.exc, 0, <<>>)
    /\ nsets' = nsets + 1
    /\ UNCHANGED <<stackHeap, objs, hist, nroots, iters, scanVars>>

\* `for x in o:` starts: iter(o)
IterCall ==
    /\ Len(iters) < MaxIters
    /\ \E o \in Objs :
        LET r == iter(objs[o])
        IN  /\ objs' = [objs EXCEPT ![o] = r.obj]
            /\ lastCall' = Call("iter", o, <<>>, r.exc, 0, <<>>)
            /\ iters' = IF r.exc # "" THEN iters
                        ELSE Append(iters, [obj |-> o, yielded |-> <<>>, done |-> FALSE])
    /\ UNCHANGED <<rowHeap, stackHeap, hist, nroots, nsets, scanVars>>

\* a running for loop asks for its next item: next(o)
NextCall ==
    /\ \E c \in 1..Len(iters) :
        /\ ~iters[c].done
        /\ LET r == next(rowHeap, objs[iters[c].obj])
           IN  /\ objs' = [objs EXCEPT ![iters[c].obj] = r.obj]
               /\ iters' = IF r.stop THEN [iters EXCEPT ![c].done = TRUE]
                           ELSE [iters EXCEPT ![c].yielded = Append(@, r.item)]
               /\ lastCall' = Call("next", iters[c].obj, <<c>>,
                                   IF r.stop THEN "StopIteration" ELSE "", 0, <<>>)
    /\ UNCHANGED <<rowHeap, stackHeap, hist, nroots, nsets, scanVars>>

\* ------------------------------------------------------------ Table.scan
PagesInputs == UNION {[1..n -> PageInputs] : n \in 1..MaxPages}

\* the store's answer to a scan request: the page after `start` (0: no
\* ExclusiveStartKey), with a LastEvaluatedKey while pages remain
StoreScan(ps, start) ==
    [none             |-> FALSE,
     Items            |-> ps[start + 1],
     hasKey           |-> start + 1 < Len(ps),
     LastEvaluatedKey |-> IF start + 1 < Len(ps) THEN start + 1 ELSE None]

\* a slip: every request is sent without ExclusiveStartKey
StartKey_none(t) == 0

\* the ExclusiveStartKey of the next request (0: the request carries none)
StartKey(t) == IF t.none \/ t.LastEvaluatedKey = None THEN 0 ELSE t.LastEvaluatedKey

\* while temp is None or "LastEvaluatedKey" in temp
LoopCondition(t) == t.none \/ t.hasKey

ScanInit ==
    /\ HeapInit
    /\ pages \in PagesInputs
    /\ scan_pc = "loop"
    /\ temp = NoTemp
    /\ scan_result = <<>>
    /\ requests = <<>>

\* one turn of the loop: a request, and its rows added to scan_result
ScanRequest ==
    /\ scan_pc = "loop"
    /\ LoopCondition(temp)
    /\ LET start == StartKey(temp)
           resp == StoreScan(pages, start)
           items == [i \in 1..Len(resp.Items) |-> Len(rowHeap) + i]
       IN  /\ rowHeap' = rowHeap \o resp.Items
           /\ temp' = [resp EXCEPT !.Items = items]
           /\ scan_result' = IF Len(items) >= 1 THEN scan_result \o items ELSE scan_result
           /\ requests' = Append(requests, [start |-> start, hasKey |-> resp.hasKey,
                                            LastEvaluatedKey |-> resp.LastEvaluatedKey])
    /\ UNCHANGED <<stackHeap, objs, lastCall, hist, nroots, nsets, iters, pages, scan_pc>>

\* return DatabaseQueryResult({"Items": scan_result}, self)
ScanReturn ==
    /\ scan_pc = "loop"
    /\ ~LoopCondition(temp)
    /\ LET r == DatabaseQueryResult_init(rowHeap, [keys |-> {"Items"}, Items |-> scan_result])
       IN  /\ rowHeap' = r.rh
           /\ objs' = Append(objs, r.obj)
           /\ hist' = Append(hist, [origin |-> Len(objs) + 1, filters |-> <<>>])
           /\ lastCall' = Call("scan", 0, <<>>, "", Len(objs) + 1, <<>>)
    /\ scan_pc' = "done"
    /\ UNCHANGED <<stackHeap, nroots, nsets, iters, pages, temp, scan_result, requests>>

\* ------------------------------------------------ the specifications
\* derivations of one payload
Next ==
    \/ GetRoot
    \/ DeriveFilter
    \/ Strip
    \/ SelectColumns
    \/ Apply
    \/ FillEmpty
    \/ Sort
    \/ Join

Spec == Init /\ [][Next]_vars

\* filter chains
NextFilter == GetRoot \/ FilterCall \/ SetItem

SpecFilter == Init /\ [][NextFilter]_vars

\* read access
NextRead == GetRoot \/ FilterApply \/ Unique \/ GetItem \/ SetItem

SpecRead == Init /\ [][NextRead]_vars

\* joins of two payloads
NextJoin == GetJoinRoot \/ Join \/ SetItem

SpecJoin == Init /\ [][NextJoin]_vars

\* iteration
NextIter == GetRoot \/ IterCall \/ NextCall

SpecIter == Init /\ [][NextIter]_vars

\* one scan of a paged table; the call is a blocking loop that runs on by itself
NextScan == ScanRequest \/ ScanReturn

SpecScan == ScanInit /\ [][NextScan]_vars /\ WF_vars(NextScan)

\* ------------------------------------------------------------ the claims
\* the rows a caller sees through all()
Rows(rh, o) == Deref(rh, all(o))

\* the fresh path for the chain that the last filter call extended: one
\* FilteredResponse built from the chain's payload with the whole stack and
\* last_filtered = None
FreshPath ==
    LET p == lastCall.self
        sh == Append(stackHeap, hist[p].filters)
    IN  FilteredResponse_init(rowHeap, sh, objs, hist[p].origin, lastCall.args[1], Len(sh), 0)

\* C1: the rows of R.filter(f1)...filter(fn), each step built incrementally
\* from the one before, are the rows of one FilteredResponse built from R with
\* the stack [f1..fn] replayed from R's snapshot (and one path raises exactly
\* when the other does)
C1_StackEquivalence ==
    lastCall.op = "filter" =>
        /\ lastCall.exc = FreshPath.exc
        /\ lastCall.exc = "" =>
            /\ ItemsIsNone(objs[lastCall.ret]) = ItemsIsNone(FreshPath.obj)
            /\ Rows(rowHeap, objs[lastCall.ret]) = Rows(FreshPath.rh, FreshPath.obj)

\* a third filter of a chain, built incrementally, that keeps one row of two
C1_Witness ==
    /\ lastCall.op = "filter"
    /\ lastCall.exc = ""
    /\ Len(hist[lastCall.ret].filters) = 3
    /\ Len(all(objs[hist[lastCall.ret].origin])) = 2
    /\ Len(all(objs[lastCall.ret])) = 1

\* C9: filter_stack() of a FilteredResponse lists the filters of its chain, one
\* entry per filter call in application order, and keeps doing so whatever is
\* derived from it later
C9_FilterStack ==
    \A o \in Objs :
        objs[o].cls = "FilteredResponse" =>
            filter_stack(stackHeap, objs[o]) =
                [i \in 1..Len(hist[o].filters) |-> Filter_str(hist[o].filters[i])]

\* two different filters derived from one FilteredResponse
C9_Witness ==
    \E p, c, d \in Objs :
        /\ objs[p].cls = "FilteredResponse"
        /\ Len(hist[p].filters) = 1
        /\ Len(hist[c].filters) = 2
        /\ Len(hist[d].filters) = 2
        /\ hist[c].filters[1] = hist[p].filters[1]
        /\ hist[d].filters[1] = hist[p].filters[1]
        /\ hist[c].filters[2] # hist[d].filters[2]


\* the missing-field policy of a filter f, for one row
Policy(f, row) ==
    IF f.includes_empty
    THEN ~Has(row, f.col) \/ FilterTypeValue(f.filter_type, Lookup(row, f.col), f.val)
    ELSE Has(row, f.col) /\ FilterTypeValue(f.filter_type, Lookup(row, f.col), f.val)

\* C2: Filter.apply(rows) returns the rows that satisfy the missing-field
\* policy, the same row objects in input order; the predicate is not evaluated
\* on a row without the column (no KeyError), so apply raises only when the
\* predicate raises on the value of a row that has the column
C2_FilterApply ==
    lastCall.op = "Filter.apply" =>
        LET f == lastCall.args[1]
            data == all(objs[lastCall.self])
        IN  /\ lastCall.exc # "KeyError"
            /\ lastCall.exc = "" =>
                lastCall.val = SelectSeq(data, LAMBDA a : Policy(f, rowHeap[a]))
            /\ lastCall.exc # "" =>
                \E i \in 1..Len(data) :
                    /\ Has(rowHeap[data[i]], f.col)
                    /\ FilterTypeRaises(f.filter_type, Lookup(rowHeap[data[i]], f.col), f.val)
                           = lastCall.exc

\* includeMissing=true keeps a row without the column and drops a row whose
\* value fails the predicate
C2_Witness ==
    /\ lastCall.op = "Filter.apply"
    /\ lastCall.exc = ""
    /\ lastCall.args[1].includes_empty
    /\ Len(all(objs[lastCall.self])) = 2
    /\ Len(lastCall.val) = 1
    /\ ~Has(rowHeap[lastCall.val[1]], lastCall.args[1].col)

\* C3: unique(key, ignoresEmpty) is the set of the values of `key` over the
\* rows that contain it, plus one null entry when ignoresEmpty is false and
\* some row lacks `key`
C3_Unique ==
    (lastCall.op = "unique" /\ lastCall.exc = "") =>
        LET key == lastCall.args[1]
            ignores_empty == lastCall.args[2]
            rows == Rows(rowHeap, objs[lastCall.self])
        IN  lastCall.val[1] =
                {Lookup(rows[i], key) : i \in {j \in 1..Len(rows) : Has(rows[j], key)}}
                    \cup (IF ~ignores_empty /\ \E i \in 1..Len(rows) : ~Has(rows[i], key)
                          THEN {None} ELSE {})

\* C6: result["field"] returns the field of the single row of a ResultSet with
\* exactly one row, fails with an IndexError on zero rows and with a TypeError
\* on more than one row (for a ResultSet that has an item list; the field must
\* be in the row for the value to be returned), and the access changes no row
C6_GetItem ==
    /\ [](lastCall.op = "getitem" /\ ~ItemsIsNone(objs[lastCall.self]) =>
            LET rows == Rows(rowHeap, objs[lastCall.self])
                item == lastCall.args[1]
            IN  /\ (Len(rows) = 1 /\ Has(rows[1], item)) =>
                        (lastCall.exc = "" /\ lastCall.val = <<Lookup(rows[1], item)>>)
                /\ Len(rows) = 0 => lastCall.exc = "IndexError"
                /\ Len(rows) > 1 => lastCall.exc = "TypeError")
    /\ [][lastCall'.op = "getitem" => (rowHeap' = rowHeap /\ objs' = objs)]_vars

\* the access succeeds on a single row
C6_Witness ==
    /\ lastCall.op = "getitem"
    /\ lastCall.exc = ""
    /\ Len(all(objs[lastCall.self])) = 1
    /\ Len(lastCall.val) = 1


Derivations == {"filter", "strip", "select_columns", "apply", "fill_empty", "sort", "join"}

\* C4: a derivation, whether it returns or raises, leaves the rows of every
\* existing ResultSet (the rows seen through all() and the snapshot behind
\* dump()) as they were before the call
C4_Frame ==
    [][lastCall'.op \in Derivations =>
        \A o \in Objs :
            /\ objs'[o] = objs[o]
            /\ Rows(rowHeap', objs'[o]) = Rows(rowHeap, objs[o])
            /\ Deref(rowHeap', dump(objs'[o]).Items) = Deref(rowHeap, dump(objs[o]).Items)]_vars

\* strip returned a new ResultSet without a field that its receiver still has
C4_Witness ==
    /\ lastCall.op = "strip"
    /\ lastCall.exc = ""
    /\ lastCall.ret # lastCall.self
    /\ Len(all(objs[lastCall.self])) = 2
    /\ Rows(rowHeap, objs[lastCall.ret]) # Rows(rowHeap, objs[lastCall.self])

\* the sort key of a row: the value of the key, or the tuple of the keys' values
SortKey(row, keys) == [j \in 1..Len(keys) |-> Lookup(row, keys[j])]

\* k1 <= k2 in the order of tuples
TupleLeq(k1, k2) ==
    \/ k1 = k2
    \/ \E j \in 1..Len(k1) : k1[j] < k2[j] /\ \A h \in 1..(j - 1) : k1[h] = k2[h]

\* out is rows in ascending order of the keys, rows of equal key in their order
StableSorted(out, rows, keys) ==
    /\ Len(out) = Len(rows)
    /\ \E pi \in Orders(1..Len(rows)) :
        /\ \A i \in 1..Len(rows) : out[i] = rows[pi[i]]
        /\ \A i, j \in 1..Len(rows) :
            i < j => /\ TupleLeq(SortKey(out[i], keys), SortKey(out[j], keys))
                     /\ SortKey(out[i], keys) = SortKey(out[j], keys) => pi[i] < pi[j]

\* C5: sort(keys) on a ResultSet whose rows all contain the keys returns a new
\* ResultSet with the same rows in ascending, stable order of the key (tuple)
C5_Sort ==
    LET o == lastCall.self
        using == lastCall.args[1]
    IN  (/\ lastCall.op = "sort"
         /\ using.type \in {"str", "list"}
         /\ ~ItemsIsNone(objs[o])
         /\ \A i \in 1..Len(all(objs[o])), j \in 1..Len(using.keys) :
                Has(rowHeap[all(objs[o])[i]], using.keys[j]))
        => /\ lastCall.exc = ""
           /\ lastCall.ret \in Objs \ {o}
           /\ StableSorted(Rows(rowHeap, objs[lastCall.ret]), Rows(rowHeap, objs[o]), using.keys)


\* a row as a mapping from its field names to their values
AsMap(row) == [k \in {row[i].k : i \in 1..Len(row)} |-> Lookup(row, k)]

\* the mapping a updated with b: b's fields overwrite
Updated(a, b) == [k \in DOMAIN a \cup DOMAIN b |-> IF k \in DOMAIN b THEN b[k] ELSE a[k]]

\* row i of a left join of rows with other on `using`
Joined(row, other, using) ==
    LET matches == {j \in 1..Len(other) :
                        Has(other[j], using) /\ Lookup(other[j], using) = Lookup(row, using)}
    IN  IF ~Has(row, using) \/ matches = {} THEN AsMap(row)
        ELSE Updated(AsMap(row), AsMap(other[CHOOSE j \in matches : \A h \in matches : j <= h]))

\* C8: join(other, using) returns self when no row of self has `using`;
\* otherwise a new ResultSet with as many rows as self, in self's order, each
\* row with `using` updated with the fields of the first row of other that has
\* the same `using` value, every other row unchanged (other has an item list)
C8_Join ==
    (lastCall.op = "join" /\ ~ItemsIsNone(objs[lastCall.args[1]])) =>
        LET o == lastCall.self
            using == lastCall.args[2]
            rows == Rows(rowHeap, objs[o])
            other == Rows(rowHeap, objs[lastCall.args[1]])
        IN  /\ lastCall.exc = ""
            /\ IF \A i \in 1..Len(rows) : ~Has(rows[i], using)
               THEN lastCall.ret = o
               ELSE /\ lastCall.ret \in Objs \ {o}
                    /\ LET out == Rows(rowHeap, objs[lastCall.ret])
                       IN  /\ Len(out) = Len(rows)
                           /\ \A i \in 1..Len(rows) :
                                AsMap(out[i]) = Joined(rows[i], other, using)


\* what one iteration over object o is to yield: the (field, value) pairs of
\* the single row in the row's field order, or the rows in row order
Expected(o) ==
    LET rows == Rows(rowHeap, objs[o])
    IN  IF Len(rows) = 1
        THEN [j \in 1..Len(rows[1]) |-> [key |-> rows[1][j].k, value |-> rows[1][j].v]]
        ELSE [i \in 1..Len(rows) |-> [row |-> rows[i]]]

\* C10: every iteration run to exhaustion has yielded each pair of the single
\* row (each row of a result with zero or several rows) exactly once, in
\* order, also when another iteration of the same ResultSet was started
\* before it finished
C10_Iteration ==
    \A c \in 1..Len(iters) : iters[c].done => iters[c].yielded = Expected(iters[c].obj)


RECURSIVE Concat(_)
Concat(ps) == IF ps = <<>> THEN <<>> ELSE Head(ps) \o Concat(Tail(ps))

\* C7: scan() sends its first request without a start key and every later one
\* with the token of the page before; it goes on exactly while pages carry a
\* token, returns one ResultSet holding the rows of all pages in page order,
\* and returns once the store has sent a page without a token
C7_Scan ==
    /\ [](/\ \A i \in 1..Len(requests) :
                requests[i].start = IF i = 1 THEN 0 ELSE requests[i - 1].LastEvaluatedKey
          /\ \A i \in 1..(Len(requests) - 1) : requests[i].hasKey
          /\ scan_pc = "done" =>
                /\ ~requests[Len(requests)].hasKey
                /\ Len(requests) = Len(pages)
                /\ Rows(rowHeap, objs[lastCall.ret]) = Concat(pages))
    /\ <>(scan_pc = "done")

\* a scan of three pages with rows has returned
C7_Witness ==
    /\ scan_pc = "done"
    /\ Len(pages) = 3
    /\ \A i \in 1..3 : Len(pages[i]) >= 1


\* C11: for every ResultSet with an item list, dump()'s "Items" holds the
\* same rows as all(); so a filter called on a ResultSet is evaluated against
\* the rows all() shows, the row a string-keyed assignment changed included
C11_Snapshot ==
    /\ \A o \in Objs :
        ~ItemsIsNone(objs[o]) => Deref(rowHeap, dump(objs[o]).Items) = Rows(rowHeap, objs[o])
    /\ (lastCall.op = "filter" /\ hist[lastCall.self].filters = <<>>
            /\ ~ItemsIsNone(objs[lastCall.self])) =>
        LET r == Filter_apply(rowHeap, lastCall.args[1], all(objs[lastCall.self]))
        IN  /\ lastCall.exc = r.exc
            /\ lastCall.exc = "" =>
                Rows(rowHeap, objs[lastCall.ret]) = Deref(rowHeap, r.list)
====
